---- MODULE Spec2Model ----
(***************************************************************************)
(* Model of the Veritas job-description ingestion service                  *)
(* (veritas_services): the upload_job_description handler, the text        *)
(* helpers of services/jd_processing.py and the Chroma collection they     *)
(* write to.                                                               *)
(*                                                                         *)
(* Texts are sequences of one-character strings, so that clean_text,       *)
(* splitlines, split, strip and join are computed as Python computes them. *)
(***************************************************************************)
EXTENDS Integers, Sequences, FiniteSets, TLC

VARIABLES
    collection,        \* the Chroma collection "job_descriptions": id -> entry
    issued,            \* the values uuid.uuid4() has returned so far
    req,               \* per request slot: the handler's inputs, locals, position
    started,           \* number of requests received so far
    running,           \* the request whose handler the event loop is running (0: none)
    embeddings_model,  \* module-level embeddings client (FALSE: its init failed)
    hashseed,          \* the process's string-hash randomisation (PYTHONHASHSEED)
    linesep,           \* os.linesep of the platform
    ct,                \* harness of clean_text: input, first and second result
    fm,                \* harness of to_flat_metadata: record and result
    ix,                \* harness of the index functions: last call and its result
    em,                \* harness of generate_embedding: the calls made so far
    users,             \* user_services: the users table, id -> row
    jobs,              \* user_services: the jobs table, id -> row
    user_seq,          \* user_services: the last id the users table issued
    job_seq,           \* user_services: the last id the jobs table issued
    fk_enforced,       \* user_services: whether the database enforces foreign keys
    ureq               \* user_services: per request slot, the handler's position and locals

\* The ingestion service's state, the harnesses of the pure functions, and
\* the state of user_services.
svc == <<collection, issued, req, started, running, embeddings_model, hashseed>>
usvc == <<users, jobs, user_seq, job_seq, fk_enforced, ureq>>
harness == <<ct, fm, ix, em, usvc>>

vars == <<svc, linesep, harness>>

(***************************************************************************)
(* Bounds of the model.                                                    *)
(***************************************************************************)
MaxLen == 5          \* longest text given to clean_text in SpecClean
MaxRequests == 2     \* requests received in one behaviour of Spec
MaxList == 2         \* longest list field given to to_flat_metadata
MaxCalls == 3        \* index calls in one behaviour of SpecIndex
MaxUserRequests == 3 \* requests user_services receives in one behaviour of SpecUsers

(***************************************************************************)
(* Characters.  SP, TAB, LF, CR are whitespace for str.split / str.strip;  *)
(* LF, CR and the pair CR LF are line boundaries for str.splitlines.       *)
(***************************************************************************)
SP  == " "
TAB == "\t"
LF  == "\n"
CR  == "\r"

Chars == {"a", SP, TAB, LF, CR}

IsSpace(c) == c \in {SP, TAB, LF, CR}

RECURSIVE TextsUpTo(_)
TextsUpTo(n) ==
    IF n = 0 THEN {<<>>}
    ELSE LET shorter == TextsUpTo(n - 1)
         IN shorter \cup {Append(t, c) : t \in {s \in shorter : Len(s) = n - 1}, c \in Chars}

(***************************************************************************)
(* Python string methods used by jd_processing.py.                         *)
(***************************************************************************)
RECURSIVE lstrip(_)
lstrip(s) == IF s # <<>> /\ IsSpace(Head(s)) THEN lstrip(Tail(s)) ELSE s

RECURSIVE rstrip(_)
rstrip(s) ==
    IF s # <<>> /\ IsSpace(s[Len(s)]) THEN rstrip(SubSeq(s, 1, Len(s) - 1)) ELSE s

\* str.strip()
strip(s) == rstrip(lstrip(s))

\* str.splitlines(): a boundary always closes the current line (even an
\* empty one); the end of the text closes it only when it is not empty.
RECURSIVE splitlinesFrom(_, _, _, _)
splitlinesFrom(s, i, cur, acc) ==
    IF i > Len(s) THEN (IF cur # <<>> THEN Append(acc, cur) ELSE acc)
    ELSE IF s[i] = CR /\ i < Len(s) /\ s[i + 1] = LF
         THEN splitlinesFrom(s, i + 2, <<>>, Append(acc, cur))
    ELSE IF s[i] \in {CR, LF}
         THEN splitlinesFrom(s, i + 1, <<>>, Append(acc, cur))
    ELSE splitlinesFrom(s, i + 1, Append(cur, s[i]), acc)

splitlines(s) == splitlinesFrom(s, 1, <<>>, <<>>)

\* str.split() without separator: maximal runs of non-whitespace.
RECURSIVE splitFrom(_, _, _, _)
splitFrom(s, i, cur, acc) ==
    IF i > Len(s) THEN (IF cur # <<>> THEN Append(acc, cur) ELSE acc)
    ELSE IF IsSpace(s[i])
         THEN splitFrom(s, i + 1, <<>>, IF cur # <<>> THEN Append(acc, cur) ELSE acc)
    ELSE splitFrom(s, i + 1, Append(cur, s[i]), acc)

split(s) == splitFrom(s, 1, <<>>, <<>>)

\* sep.join(parts)
RECURSIVE join(_, _)
join(sep, parts) ==
    IF parts = <<>> THEN <<>>
    ELSE IF Len(parts) = 1 THEN parts[1]
    ELSE parts[1] \o sep \o join(sep, Tail(parts))

\* str.replace(old, new) for a two-character old and one-character new,
\* scanning left to right over non-overlapping occurrences.
RECURSIVE replace2(_, _, _)
replace2(s, old, new) ==
    IF Len(s) < 2 THEN s
    ELSE IF SubSeq(s, 1, 2) = old THEN new \o replace2(SubSeq(s, 3, Len(s)), old, new)
    ELSE <<Head(s)>> \o replace2(Tail(s), old, new)

(***************************************************************************)
(* clean_text (jd_processing.py 71-80).                                    *)
(***************************************************************************)
\* A variant that collapses whitespace with text.replace("  ", " ") in one
\* pass instead of " ".join(text.split()).
clean_text_replace(text) ==
    IF text = <<>> THEN <<>>
    ELSE LET kept == SelectSeq(splitlines(text), LAMBDA s : strip(s) # <<>>)
             joined == join(linesep, kept)
         IN strip(replace2(joined, <<SP, SP>>, <<SP>>))

clean_text(text) ==
    IF text = <<>> THEN <<>>
    ELSE LET kept == SelectSeq(splitlines(text), LAMBDA s : strip(s) # <<>>)
             joined == join(linesep, kept)
             collapsed == join(<<SP>>, split(joined))
         IN strip(collapsed)

(***************************************************************************)
(* JobDescriptionData (schemas.py 25-41).  A field value carries its       *)
(* Python type, so that isinstance(v, list) is a test on the value: a      *)
(* str holds a text, a list holds a sequence of texts, None holds nothing. *)
(***************************************************************************)
Str(s)   == [type |-> "str", val |-> s]
List(xs) == [type |-> "list", val |-> xs]
NoneV    == [type |-> "NoneType"]

RequiredFields == {"job_id", "company_id", "title"}
OptionalFields == {"location", "summary", "experience_level"}
ListFields == {"responsibilities", "required_skills", "preferred_skills",
               "qualifications", "technologies", "benefits"}
FieldNames == RequiredFields \cup OptionalFields \cup ListFields

(***************************************************************************)
(* to_flat_metadata (jd_processing.py 135-142).                            *)
(***************************************************************************)
\* A variant that joins with ", " (the alternative the source's comment
\* mentions) and leaves out the fields whose value is None.
to_flat_metadata_comma(jd) ==
    [k \in {f \in DOMAIN jd : jd[f] # NoneV} |->
        IF jd[k].type = "list" THEN Str(join(<<",", SP>>, jd[k].val)) ELSE jd[k]]

to_flat_metadata(jd) ==
    [k \in DOMAIN jd |->
        IF jd[k].type = "list" THEN Str(join(<<LF>>, jd[k].val)) ELSE jd[k]]

(***************************************************************************)
(* Python truthiness of the values the handler tests with "not x" / "if x".*)
(* None, the empty str and the empty list (an embedding of dimension 0)    *)
(* are falsy; an UploadFile object is always truthy.                       *)
(***************************************************************************)
Truthy(v) ==
    /\ v # NoneV
    /\ v.type \in {"str", "list"} => v.val # <<>>
    /\ v.type = "vector" => v.dim > 0

(***************************************************************************)
(* extract_text_from_file (jd_processing.py 41-69).  The bytes of a file   *)
(* are modelled by what a parser finds in them: whether they are corrupt   *)
(* and, if not, the texts of the pages (PDF) or paragraphs (DOCX).         *)
(* The result holds the returned Optional[str] and the parsers invoked.    *)
(***************************************************************************)
PDF  == "application/pdf"
DOCX == "application/vnd.openxmlformats-officedocument.wordprocessingml.document"
PNG  == "image/png"

\* A variant whose first branch is taken for every type but DOCX, so that
\* an unsupported type is handed to the PDF parser.
extract_text_from_file_fallthrough(file_content_bytes, file_type) ==
    IF file_type # DOCX
    THEN [calls |-> <<"fitz.open">>,
          text |-> IF file_content_bytes.corrupt \/ file_type # PDF THEN NoneV
                   ELSE Str(join(<<>>, file_content_bytes.parts))]
    ELSE [calls |-> <<"docx.Document">>,
          text |-> IF file_content_bytes.corrupt THEN NoneV
                   ELSE Str(join(<<LF>>, SelectSeq(file_content_bytes.parts,
                                                   LAMBDA t : strip(t) # <<>>)))]

extract_text_from_file(file_content_bytes, file_type) ==
    IF file_type = PDF
    THEN [calls |-> <<"fitz.open">>,
          text |-> IF file_content_bytes.corrupt THEN NoneV
                   ELSE Str(join(<<>>, file_content_bytes.parts))]
    ELSE IF file_type = DOCX
    THEN [calls |-> <<"docx.Document">>,
          text |-> IF file_content_bytes.corrupt THEN NoneV
                   ELSE Str(join(<<LF>>, SelectSeq(file_content_bytes.parts,
                                                   LAMBDA t : strip(t) # <<>>)))]
    ELSE [calls |-> <<>>, text |-> NoneV]

(***************************************************************************)
(* Values the harnesses and the requests draw from.                        *)
(***************************************************************************)
Go  == <<"g", "o">>
K8s == <<"k">>
ItemVals == {Go, K8s}

RECURSIVE ListsUpTo(_)
ListsUpTo(n) ==
    IF n = 0 THEN {<<>>}
    ELSE LET shorter == ListsUpTo(n - 1)
         IN shorter \cup {Append(l, x) : l \in {s \in shorter : Len(s) = n - 1}, x \in ItemVals}

Procs == 1..MaxRequests

EmptyCollection == [i \in {} |-> NoneV]

IdleReq == [pc |-> "idle"]

CtOff == [pc |-> "off"]
FmOff == [pc |-> "off"]
IxOff == [pc |-> "off"]
EmOff == [pc |-> "off"]

\* user_services not running.
UsersOff ==
    /\ users = <<>>
    /\ jobs = <<>>
    /\ user_seq = 0
    /\ job_seq = 0
    /\ fk_enforced = FALSE
    /\ ureq = <<>>

\* The service before any request: empty collection, both clients initialised.
ServiceIdle ==
    /\ collection = EmptyCollection
    /\ issued = {}
    /\ req = [p \in Procs |-> IdleReq]
    /\ started = 0
    /\ running = 0
    /\ embeddings_model = TRUE
    /\ hashseed = 0

(***************************************************************************)
(* SpecClean: clean_text applied once and twice to every text of at most   *)
(* MaxLen characters, on a platform with either line separator.            *)
(***************************************************************************)
InitClean ==
    /\ ServiceIdle
    /\ linesep \in {<<LF>>, <<CR, LF>>}
    /\ ct \in {[pc |-> "in", text |-> t] : t \in TextsUpTo(MaxLen)}
    /\ fm = FmOff
    /\ ix = IxOff
    /\ em = EmOff
    /\ UsersOff

CleanOnce ==
    /\ ct.pc = "in"
    /\ ct' = [pc |-> "once", text |-> ct.text, once |-> clean_text(ct.text)]
    /\ UNCHANGED <<svc, linesep, fm, ix, em, usvc>>

CleanTwice ==
    /\ ct.pc = "once"
    /\ ct' = [pc |-> "twice", text |-> ct.text, once |-> ct.once,
              twice |-> clean_text(ct.once)]
    /\ UNCHANGED <<svc, linesep, fm, ix, em, usvc>>

NextClean == CleanOnce \/ CleanTwice

SpecClean == InitClean /\ [][NextClean]_vars

(***************************************************************************)
(* SpecFlat: to_flat_metadata applied to JobDescriptionData records.       *)
(* Each list field holds one of two lists of at most MaxList items, each   *)
(* optional field holds None or a text.                                    *)
(***************************************************************************)
FlatInputs ==
    {[k \in FieldNames |->
         IF k \in ListFields THEN List(IF k \in S THEN l1 ELSE l2)
         ELSE IF k \in OptionalFields THEN (IF k \in S THEN NoneV ELSE Str(o))
         ELSE Str(Go)] :
     S \in SUBSET (ListFields \cup OptionalFields),
     l1 \in ListsUpTo(MaxList), l2 \in {<<>>, <<K8s, Go>>}, o \in {<<>>, K8s}}

InitFlat ==
    /\ ServiceIdle
    /\ linesep = <<LF>>
    /\ ct = CtOff
    /\ fm \in {[pc |-> "in", jd |-> r] : r \in FlatInputs}
    /\ ix = IxOff
    /\ em = EmOff
    /\ UsersOff

Flatten ==
    /\ fm.pc = "in"
    /\ fm' = [pc |-> "out", jd |-> fm.jd, out |-> to_flat_metadata(fm.jd)]
    /\ UNCHANGED <<svc, linesep, ct, ix, em, usvc>>

NextFlat == Flatten

SpecFlat == InitFlat /\ [][NextFlat]_vars

(***************************************************************************)
(* Embeddings (jd_processing.py 82-111).  hash(text) is a function of the  *)
(* process's hash randomisation and the text; the vector drawn from        *)
(* default_rng(seed) is a function of the seed and the dimension.          *)
(***************************************************************************)
EmbeddingDim == 1536

py_hash(text) == [salt |-> hashseed, of |-> text]

mock_embed_query(text, dim) == [type |-> "vector", seed |-> py_hash(text), dim |-> dim]

get_embedding(text, mock, dim) ==
    IF mock THEN mock_embed_query(text, dim)
    ELSE [type |-> "vector", seed |-> "embed_query", dim |-> dim]

\* generate_embedding without its empty-text guard (100-102).
generate_embedding_unguarded(text) ==
    IF ~embeddings_model THEN NoneV
    ELSE get_embedding(text, TRUE, EmbeddingDim)

\* 93-111.  The mock path draws from numpy only and raises nothing.
generate_embedding(text) ==
    IF ~embeddings_model THEN NoneV
    ELSE IF strip(text) = <<>> THEN NoneV
    ELSE get_embedding(text, TRUE, EmbeddingDim)

(***************************************************************************)
(* The Chroma collection (jd_processing.py 27-39, 113-157).                *)
(* collection.add is the library's: it raises when the backend is down;    *)
(* for an id that is already stored it raises or returns without writing,  *)
(* depending on the library version (env.dup_raises); otherwise it stores  *)
(* the entry.  It never overwrites.                                        *)
(***************************************************************************)
Entry(document, embedding, metadata) ==
    [document |-> document, embedding |-> embedding, metadata |-> metadata]

\* A variant that writes back a copy of the collection taken before other
\* writers' entries arrived: the entries stored so far are lost.
CollectionAdd_lost_update(coll, id, document, embedding, metadata, env) ==
    IF env.down THEN [raised |-> TRUE, coll |-> coll]
    ELSE IF id \in DOMAIN coll THEN [raised |-> env.dup_raises, coll |-> coll]
    ELSE [raised |-> FALSE,
          coll |-> [k \in {id} |-> Entry(document, embedding, metadata)]]

CollectionAdd(coll, id, document, embedding, metadata, env) ==
    IF env.down THEN [raised |-> TRUE, coll |-> coll]
    ELSE IF id \in DOMAIN coll THEN [raised |-> env.dup_raises, coll |-> coll]
    ELSE [raised |-> FALSE,
          coll |-> [k \in DOMAIN coll \cup {id} |->
                       IF k = id THEN Entry(document, embedding, metadata) ELSE coll[k]]]

AddEnvs == [down : BOOLEAN, dup_raises : BOOLEAN]

\* A variant that stores only the title and the company as metadata (the
\* two parameters the function receives and does not use).
add_jd_to_chroma_basic_metadata(coll, job_id, job_title, company_id, cleaned_jd_text, jd_embedding, parsed_jd_data_dict, env) ==
    LET r == CollectionAdd(coll, job_id, cleaned_jd_text, jd_embedding,
                           [title |-> Str(job_title), company_id |-> Str(company_id)], env)
    IN [success |-> ~r.raised, coll |-> r.coll]

\* A variant that writes the entry and then reports the outcome of a
\* second, failing step: the entry stays although False is returned.
add_jd_to_chroma_partial(coll, job_id, job_title, company_id, cleaned_jd_text, jd_embedding, parsed_jd_data_dict, env) ==
    LET r == CollectionAdd(coll, job_id, cleaned_jd_text, jd_embedding,
                           parsed_jd_data_dict, [env EXCEPT !.down = FALSE])
    IN [success |-> ~env.down /\ ~r.raised, coll |-> r.coll]

\* add_jd_to_chroma (113-133): True unless collection.add raised.
add_jd_to_chroma(coll, job_id, job_title, company_id, cleaned_jd_text, jd_embedding, parsed_jd_data_dict, env) ==
    LET r == CollectionAdd(coll, job_id, cleaned_jd_text, jd_embedding,
                           parsed_jd_data_dict, env)
    IN [success |-> ~r.raised, coll |-> r.coll]

\* get_jd_from_chroma (144-157)
get_jd_from_chroma(coll, job_id) ==
    IF job_id \in DOMAIN coll
    THEN [id |-> job_id, document |-> coll[job_id].document,
          metadata |-> coll[job_id].metadata, embedding |-> coll[job_id].embedding]
    ELSE NoneV

(***************************************************************************)
(* Requests of upload_job_description (api/endpoints/jobs.py 24-143).      *)
(***************************************************************************)
BE   == <<"b", "e">>
SWE  == <<"s", "w", "e">>
Acme == <<"a", "c">>
Rival == <<"r", "c">>

UploadFile(content_type, corrupt, parts) ==
    [type |-> "UploadFile", content_type |-> content_type,
     bytes |-> [corrupt |-> corrupt, parts |-> parts]]

PdfOk     == UploadFile(PDF, FALSE, << <<"a", SP>>, <<"a">> >>)
PdfBroken == UploadFile(PDF, TRUE, <<>>)
PdfNoText == UploadFile(PDF, FALSE, <<>>)
PdfBlank  == UploadFile(PDF, FALSE, << <<SP, LF>> >>)
DocxOk    == UploadFile(DOCX, FALSE, << <<"a">>, <<SP>>, <<"a">> >>)
PngFile   == UploadFile(PNG, FALSE, << <<"a">> >>)

RawEmpty == Str(<<>>)
RawBlank == Str(<<SP, LF>>)
RawJD    == Str(<<"a", LF, LF, "a", SP>>)

\* The (file, raw_text) pairs requests come with.
Contents ==
    { <<NoneV, NoneV>>, <<NoneV, RawEmpty>>, <<NoneV, RawBlank>>, <<NoneV, RawJD>>,
      <<PdfOk, NoneV>>, <<PdfOk, RawJD>>, <<DocxOk, RawEmpty>>,
      <<PdfBroken, NoneV>>, <<PdfNoText, NoneV>>, <<PdfBlank, NoneV>>,
      <<PngFile, NoneV>> }

Callers == { [job_title |-> BE, company_id |-> Acme] }

Digits == <<"1", "2", "3", "4", "5", "6", "7", "8", "9">>
UuidText(i) == <<"u", Digits[i]>>
UUIDs == {UuidText(i) : i \in 1..MaxRequests}

\* What the generative model may answer: a record of the schema (with a
\* job_id, title and company_id of its own making), output that fails the
\* schema, or a failing call.
LLMRecord(job_id, company_id, title, location, required_skills) ==
    [k \in FieldNames |->
        CASE k = "job_id" -> Str(job_id)
          [] k = "company_id" -> Str(company_id)
          [] k = "title" -> Str(title)
          [] k = "location" -> location
          [] k = "required_skills" -> List(required_skills)
          [] k \in OptionalFields \ {"location"} -> NoneV
          [] OTHER -> List(<<>>)]

LLMRecords ==
    { LLMRecord(UuidText(1), Rival, SWE, NoneV, <<Go, K8s>>),
      LLMRecord(<<"x">>, Acme, BE, Str(<<"a">>), <<Go>>) }

\* An answer that is valid in every field but carries no job_id.
LLMRecordWithoutJobId ==
    LET d == LLMRecord(<<"x">>, Rival, SWE, NoneV, <<K8s>>)
    IN [k \in FieldNames \ {"job_id"} |-> d[k]]

LLMAnswers == LLMRecords \cup {LLMRecordWithoutJobId}

\* JobDescriptionData (schemas.py 25-41) as the response_model: job_id,
\* company_id and title are required (Field(...)); the errors of an answer
\* are its missing required fields, in the order of the class.
ValidationErrors(data) ==
    SelectSeq(<<"job_id", "company_id", "title">>, LAMBDA k : k \notin DOMAIN data)

LLMOutcomes ==
    {[kind |-> "ok", data |-> d] : d \in LLMAnswers}
        \cup {[kind |-> "ValidationError"], [kind |-> "Exception"]}

\* The messages of the handler's HTTPExceptions (34, 39, 52, 62, 96, 103, 113, 131).
MsgNeither == "Either 'file' or 'raw_text' must be provided."
MsgBoth == "Cannot provide both 'file' and 'raw_text'. Choose one."
MsgExtract == "Could not extract text from the provided file type: "
MsgEmpty == "Extracted or provided text is empty after cleaning."
MsgSchema == "Failed to parse job description with LLM due to schema mismatch. Details: "
MsgLLM == "Failed to extract structured job description data using LLM."
MsgEmbedding == "Failed to generate embedding for the job description."
MsgStore == "Failed to store job description and embedding in the database."

HTTP_400_BAD_REQUEST == 400
HTTP_422_UNPROCESSABLE_ENTITY == 422
HTTP_500_INTERNAL_SERVER_ERROR == 500

HTTPException(status_code, detail) ==
    [kind |-> "HTTPException", status_code |-> status_code, detail |-> detail]

GeneralResponse(job_id, parsed_jd_data) ==
    [kind |-> "GeneralResponse", status |-> "success",
     details |-> [job_id |-> job_id,
                  job_title |-> parsed_jd_data["title"],
                  company_id |-> parsed_jd_data["company_id"],
                  parsed_data |-> parsed_jd_data]]

\* The handler's frame when the request arrives (25-30, 41-42, 68).
NewReq(job_title, company_id, file, raw_text) ==
    [pc |-> "validate", job_title |-> job_title, company_id |-> company_id,
     file |-> file, raw_text |-> raw_text,
     extracted_text |-> NoneV, cleaned_jd_text |-> NoneV, job_id |-> NoneV,
     parsed_jd_data |-> NoneV, jd_metadata |-> NoneV, jd_embedding |-> NoneV,
     resp |-> NoneV, trace |-> <<>>]

\* The detail of an HTTPException is the sequence of the pieces its
\* (f-)string is made of.
\* raise HTTPException(...): the handler ends and the event loop is free.
Raise(p, r, exc) ==
    /\ req' = [req EXCEPT ![p] = [r EXCEPT !.pc = "failed", !.resp = exc]]
    /\ running' = 0

\* The handler goes on at pc.
Goto(p, r, pc) ==
    /\ req' = [req EXCEPT ![p] = [r EXCEPT !.pc = pc]]
    /\ running' = p

Called(r, names) == [r EXCEPT !.trace = r.trace \o names]

(***************************************************************************)
(* upload_job_description, one action per stage.  The handler is a         *)
(* coroutine whose only suspension point is "await file.read()": from      *)
(* there on it runs on the event loop without another handler in between.  *)
(***************************************************************************)
\* 25-42: the request arrives; exactly one of file / raw_text is required.
Validate(p, caller, file, raw_text) ==
    /\ started < MaxRequests
    /\ p = started + 1
    /\ running = 0
    /\ req[p].pc = "idle"
    /\ started' = started + 1
    /\ LET r == NewReq(caller.job_title, caller.company_id, file, raw_text)
       IN IF ~Truthy(file) /\ ~Truthy(raw_text)
          THEN Raise(p, r, HTTPException(HTTP_400_BAD_REQUEST,
                                         <<MsgNeither>>))
          ELSE IF Truthy(file) /\ Truthy(raw_text)
          THEN Raise(p, r, HTTPException(HTTP_400_BAD_REQUEST,
                                         <<MsgBoth>>))
          ELSE IF Truthy(file)
          THEN /\ req' = [req EXCEPT ![p] = [r EXCEPT !.pc = "read"]]
               /\ running' = 0
          ELSE Goto(p, r, "extract")
    /\ UNCHANGED <<collection, issued, embeddings_model, hashseed, linesep, harness>>

\* 45-46: await file.read() returns.
ReadFile(p) ==
    /\ req[p].pc = "read"
    /\ running = 0
    /\ Goto(p, Called(req[p], <<"file.read">>), "extract")
    /\ UNCHANGED <<collection, issued, started, embeddings_model, hashseed, linesep, harness>>

\* 44-55: the text of the file, or the raw text.
Extract(p) ==
    /\ req[p].pc = "extract"
    /\ running = p
    /\ LET r == req[p]
       IN IF Truthy(r.file)
          THEN LET x == extract_text_from_file(r.file.bytes, r.file.content_type)
                   r1 == Called(r, <<"extract_text_from_file">> \o x.calls)
               IN IF ~Truthy(x.text)
                  THEN Raise(p, r1, HTTPException(HTTP_422_UNPROCESSABLE_ENTITY,
                                 <<MsgExtract,
                                   r.file.content_type,
                                   ". Please check the file or use raw text.">>))
                  ELSE Goto(p, [r1 EXCEPT !.extracted_text = x.text], "clean")
          ELSE Goto(p, [r EXCEPT !.extracted_text = r.raw_text], "clean")
    /\ UNCHANGED <<collection, issued, started, embeddings_model, hashseed, linesep, harness>>

\* 57-63
Clean(p) ==
    /\ req[p].pc = "clean"
    /\ running = p
    /\ LET cleaned == clean_text(req[p].extracted_text.val)
           r1 == [Called(req[p], <<"clean_text">>) EXCEPT !.cleaned_jd_text = cleaned]
       IN IF cleaned = <<>>
          THEN Raise(p, r1, HTTPException(HTTP_422_UNPROCESSABLE_ENTITY,
                         <<MsgEmpty>>))
          ELSE Goto(p, r1, "uuid")
    /\ UNCHANGED <<collection, issued, started, embeddings_model, hashseed, linesep, harness>>

\* uuid.uuid4(): a value it has not returned before.  Identifiers are
\* opaque, so the model names them in the order they are issued.
uuid4 == {UuidText(Cardinality(issued) + 1)}

\* A variant that derives the identifier from the caller's company and title.
GenerateJobId_from_content(r) == {r.company_id \o r.job_title}

\* 65-66: the identifiers str(uuid.uuid4()) may return for frame r.
GenerateJobId(r) == uuid4

NewJobId(p) ==
    /\ req[p].pc = "uuid"
    /\ running = p
    /\ \E u \in GenerateJobId(req[p]) :
          /\ issued' = issued \cup {u}
          /\ Goto(p, [Called(req[p], <<"uuid4">>) EXCEPT !.job_id = u], "llm")
    /\ UNCHANGED <<collection, started, embeddings_model, hashseed, linesep, harness>>

\* A variant that keeps the title the model inferred.
Override_keep_title(parsed_jd_data, job_id, company_id, job_title) ==
    [parsed_jd_data EXCEPT !["job_id"] = Str(job_id), !["company_id"] = Str(company_id)]

\* A variant that keeps the job_id the model answered (86 left out).
Override_keep_job_id(parsed_jd_data, job_id, company_id, job_title) ==
    [parsed_jd_data EXCEPT !["company_id"] = Str(company_id), !["title"] = Str(job_title)]

\* 86-88
Override(parsed_jd_data, job_id, company_id, job_title) ==
    [parsed_jd_data EXCEPT !["job_id"] = Str(job_id),
                           !["company_id"] = Str(company_id),
                           !["title"] = Str(job_title)]

\* 68-104: the structured extraction and the overrides.
CallLLM(p, outcome) ==
    /\ req[p].pc = "llm"
    /\ running = p
    /\ LET r1 == Called(req[p], <<"chat.completions.create">>)
       IN CASE outcome.kind = "ValidationError" ->
                 Raise(p, r1, HTTPException(HTTP_500_INTERNAL_SERVER_ERROR,
                     <<MsgSchema,
                       "e.errors()">>))
            [] outcome.kind = "Exception" ->
                 Raise(p, r1, HTTPException(HTTP_500_INTERNAL_SERVER_ERROR,
                     <<MsgLLM>>))
            [] outcome.kind = "ok" ->
                 IF ValidationErrors(outcome.data) # <<>>
                 THEN Raise(p, r1, HTTPException(HTTP_500_INTERNAL_SERVER_ERROR,
                          <<MsgSchema>> \o ValidationErrors(outcome.data)))
                 ELSE Goto(p, [r1 EXCEPT !.parsed_jd_data =
                                  Override(outcome.data, r1.job_id, r1.company_id,
                                           r1.job_title)],
                           "flatten")
    /\ UNCHANGED <<collection, issued, started, embeddings_model, hashseed, linesep, harness>>

\* 107
FlattenMetadata(p) ==
    /\ req[p].pc = "flatten"
    /\ running = p
    /\ Goto(p, [Called(req[p], <<"to_flat_metadata">>) EXCEPT
                   !.jd_metadata = to_flat_metadata(req[p].parsed_jd_data)], "embed")
    /\ UNCHANGED <<collection, issued, started, embeddings_model, hashseed, linesep, harness>>

\* A variant that does not test the embedding (the check of 110-114 left
\* out): the handler goes on to the index add with whatever came back.
Embed_unchecked(p) ==
    /\ req[p].pc = "embed"
    /\ running = p
    /\ LET e == generate_embedding(req[p].cleaned_jd_text)
       IN Goto(p, [Called(req[p], <<"generate_embedding">>) EXCEPT !.jd_embedding = e],
               "store")
    /\ UNCHANGED <<collection, issued, started, embeddings_model, hashseed, linesep, harness>>

\* 108-114
Embed(p) ==
    /\ req[p].pc = "embed"
    /\ running = p
    /\ LET e == generate_embedding(req[p].cleaned_jd_text)
           r1 == [Called(req[p], <<"generate_embedding">>) EXCEPT !.jd_embedding = e]
       IN IF ~Truthy(e)
          THEN Raise(p, r1, HTTPException(HTTP_500_INTERNAL_SERVER_ERROR,
                         <<MsgEmbedding>>))
          ELSE Goto(p, r1, "store")
    /\ UNCHANGED <<collection, issued, started, embeddings_model, hashseed, linesep, harness>>

\* 116-143: the index write and the response.
Store(p, env) ==
    /\ req[p].pc = "store"
    /\ running = p
    /\ LET r == req[p]
           a == add_jd_to_chroma(collection, r.job_id, r.job_title, r.company_id,
                                 r.cleaned_jd_text, r.jd_embedding, r.jd_metadata, env)
           r1 == Called(r, <<"add_jd_to_chroma">>)
       IN /\ collection' = a.coll
          /\ IF ~a.success
             THEN Raise(p, r1, HTTPException(HTTP_500_INTERNAL_SERVER_ERROR,
                     <<MsgStore>>))
             ELSE /\ req' = [req EXCEPT ![p] =
                                [r1 EXCEPT !.pc = "done",
                                           !.resp = GeneralResponse(r.job_id, r.parsed_jd_data)]]
                  /\ running' = 0
    /\ UNCHANGED <<issued, started, embeddings_model, hashseed, linesep, harness>>

Init ==
    /\ collection = EmptyCollection
    /\ issued = {}
    /\ req = [p \in Procs |-> IdleReq]
    /\ started = 0
    /\ running = 0
    /\ embeddings_model \in BOOLEAN
    /\ hashseed = 0
    /\ linesep = <<LF>>
    /\ ct = CtOff
    /\ fm = FmOff
    /\ ix = IxOff
    /\ em = EmOff
    /\ UsersOff

Next ==
    \/ \E p \in Procs, c \in Callers, x \in Contents : Validate(p, c, x[1], x[2])
    \/ \E p \in Procs : ReadFile(p)
    \/ \E p \in Procs : Extract(p)
    \/ \E p \in Procs : Clean(p)
    \/ \E p \in Procs : NewJobId(p)
    \/ \E p \in Procs, o \in LLMOutcomes : CallLLM(p, o)
    \/ \E p \in Procs : FlattenMetadata(p)
    \/ \E p \in Procs : Embed(p)
    \/ \E p \in Procs, env \in AddEnvs : Store(p, env)

Spec == Init /\ [][Next]_vars

(***************************************************************************)
(* Vocabulary of the claims about requests.                                *)
(***************************************************************************)
Arrived(p) == req[p].pc # "idle"
Finished(p) == req[p].pc \in {"failed", "done"}
Succeeded(p) == req[p].pc = "done"

FailedWith(p, status_code, msg) ==
    /\ req[p].pc = "failed"
    /\ req[p].resp.status_code = status_code
    /\ req[p].resp.detail[1] = msg

CallsOf(p, name) == {i \in 1..Len(req[p].trace) : req[p].trace[i] = name}
HasCalled(p, name) == CallsOf(p, name) # {}

\* The stages after input validation and the await of the upload.
Stages == {"extract_text_from_file", "fitz.open", "docx.Document", "clean_text", "uuid4",
           "chat.completions.create", "to_flat_metadata", "generate_embedding",
           "add_jd_to_chroma"}

NoStageRan(p) == \A i \in 1..Len(req[p].trace) : req[p].trace[i] \notin Stages

\* The text the request brought: the file's extracted text, or the raw text.
InputText(r) ==
    IF Truthy(r.file)
    THEN extract_text_from_file(r.file.bytes, r.file.content_type).text.val
    ELSE r.raw_text.val

(***************************************************************************)
(* C1  No partial writes: an ingestion in which the structured extraction, *)
(* the embedding generation or the index add fails leaves no index entry   *)
(* for its job_id (get returns None), and no step of an ingestion other    *)
(* than its successful index add changes the collection, so the index      *)
(* holds what it held before the call.                                     *)
(***************************************************************************)
C1_FailedLate(p) ==
    \/ FailedWith(p, HTTP_500_INTERNAL_SERVER_ERROR, MsgSchema)
    \/ FailedWith(p, HTTP_500_INTERNAL_SERVER_ERROR, MsgLLM)
    \/ FailedWith(p, HTTP_500_INTERNAL_SERVER_ERROR, MsgEmbedding)
    \/ FailedWith(p, HTTP_500_INTERNAL_SERVER_ERROR, MsgStore)

C1_NoPartialWrites ==
    /\ [](\A p \in Procs :
             C1_FailedLate(p) => get_jd_from_chroma(collection, req[p].job_id) = NoneV)
    /\ [][\A p \in Procs :
             (req'[p] # req[p] /\ req'[p].pc # "done") => collection' = collection]_vars

\* One ingestion was stored, and a later one failed at the index add.
C1_Witness ==
    /\ Succeeded(1)
    /\ FailedWith(2, HTTP_500_INTERNAL_SERVER_ERROR, MsgStore)
    /\ DOMAIN collection = {req[1].job_id}

C3_BothOrNeither(p) ==
    \/ req[p].file # NoneV /\ req[p].raw_text # NoneV
    \/ req[p].file = NoneV /\ req[p].raw_text = NoneV

C3_InvalidInputRejected ==
    \A p \in Procs :
        (Arrived(p) /\ C3_BothOrNeither(p)) =>
            /\ req[p].pc = "failed"
            /\ req[p].resp.status_code = HTTP_400_BAD_REQUEST
            /\ NoStageRan(p)

(***************************************************************************)
(* C4  Scenario B: a request whose only content is the empty raw text ""   *)
(* fails with the empty-content failure of the normalize stage (422,       *)
(* "empty after cleaning"), not with an input-validation failure, and      *)
(* creates no index entry.                                                 *)
(***************************************************************************)
C4_EmptyRawTextIsEmptyContent ==
    \A p \in Procs :
        (Arrived(p) /\ req[p].file = NoneV /\ req[p].raw_text = RawEmpty /\ Finished(p)) =>
            /\ FailedWith(p, HTTP_422_UNPROCESSABLE_ENTITY, MsgEmpty)
            /\ ~HasCalled(p, "add_jd_to_chroma")

(***************************************************************************)
(* C5  Unsupported media type, as claimed: a document whose media type is  *)
(* neither PDF nor DOCX is rejected as invalid input (400), before         *)
(* extraction is attempted, with a failure other than the extraction       *)
(* failure of a corrupt document, and creates no index entry.              *)
(***************************************************************************)
C5_Unsupported(p) ==
    /\ Arrived(p)
    /\ req[p].file # NoneV
    /\ req[p].file.content_type \notin {PDF, DOCX}
    /\ ~Truthy(req[p].raw_text)

C5_Corrupt(p) ==
    /\ Arrived(p)
    /\ req[p].file # NoneV
    /\ req[p].file.content_type \in {PDF, DOCX}
    /\ req[p].file.bytes.corrupt
    /\ ~Truthy(req[p].raw_text)

C6_Carries(m, r) ==
    /\ m["job_id"] = Str(r.job_id)
    /\ m["title"] = Str(r.job_title)
    /\ m["company_id"] = Str(r.company_id)

C6_OverridePrecedence ==
    \A p \in Procs :
        Succeeded(p) =>
            /\ req[p].resp.details.job_id = req[p].job_id
            /\ req[p].resp.details.job_title = Str(req[p].job_title)
            /\ req[p].resp.details.company_id = Str(req[p].company_id)
            /\ C6_Carries(req[p].resp.details.parsed_data, req[p])
            /\ req[p].job_id \in DOMAIN collection
            /\ C6_Carries(collection[req[p].job_id].metadata, req[p])

\* The second ingestion succeeded on the model's record that names another
\* job_id (the first ingestion's), company and title.
C6_Witness ==
    /\ Succeeded(2)
    /\ req[2].job_id = UuidText(2)
    /\ req[2].resp.details.parsed_data["required_skills"] = List(<<Go, K8s>>)
    /\ \E d \in LLMRecords :
          /\ d["required_skills"] = List(<<Go, K8s>>)
          /\ d["job_id"] = Str(UuidText(1))
          /\ d["title"] # Str(req[2].job_title)
          /\ d["company_id"] # Str(req[2].company_id)

(***************************************************************************)
(* C7  Fresh identifiers: each ingestion generates its job_id at most      *)
(* once, exactly once when normalization produced non-empty text, after    *)
(* clean_text and before the index add; no two ingestions get the same     *)
(* job_id, also when their content, title and company_id are identical,    *)
(* and each successful ingestion adds an index entry of its own.           *)
(***************************************************************************)
C7_Before(t, first, second) ==
    \A j \in 1..Len(t) : t[j] = second => \E i \in 1..(j - 1) : t[i] = first

C7_FreshIdentifiers ==
    /\ \A p \in Procs :
          Arrived(p) =>
              LET t == req[p].trace
              IN /\ \A i, j \in 1..Len(t) : (t[i] = "uuid4" /\ t[j] = "uuid4") => i = j
                 /\ req[p].pc \in {"llm", "flatten", "embed", "store", "done"}
                        => HasCalled(p, "uuid4")
                 /\ HasCalled(p, "uuid4") => req[p].cleaned_jd_text # <<>>
                 /\ C7_Before(t, "clean_text", "uuid4")
                 /\ C7_Before(t, "uuid4", "add_jd_to_chroma")
    /\ \A p, q \in Procs :
          (p # q /\ Arrived(p) /\ Arrived(q) /\ HasCalled(p, "uuid4") /\ HasCalled(q, "uuid4"))
              => req[p].job_id # req[q].job_id
    /\ \A p \in Procs : Succeeded(p) => req[p].job_id \in DOMAIN collection
    /\ \A j \in DOMAIN collection : \E p \in Procs : Succeeded(p) /\ req[p].job_id = j

\* Two ingestions of identical content, title and company_id both succeeded.
C7_Witness ==
    /\ Succeeded(1) /\ Succeeded(2)
    /\ req[1].raw_text = RawJD /\ req[2].raw_text = RawJD
    /\ req[1].job_title = req[2].job_title
    /\ req[1].company_id = req[2].company_id
    /\ req[1].resp.details.parsed_data["required_skills"]
           = req[2].resp.details.parsed_data["required_skills"]
    /\ req[1].job_id # req[2].job_id
    /\ Cardinality(DOMAIN collection) = 2

(***************************************************************************)
(* SpecIndex: the index functions of jd_processing.py called directly, at  *)
(* most MaxCalls times, with ids that may or may not be stored already.    *)
(***************************************************************************)
IndexIds == {UuidText(1), UuidText(2)}
IndexDocuments == {<<"a">>, <<"a", SP, "a">>}
IndexMetadatas == {to_flat_metadata(Override(d, UuidText(1), Acme, BE)) : d \in LLMRecords}

InitIndex ==
    /\ ServiceIdle
    /\ linesep = <<LF>>
    /\ ct = CtOff
    /\ fm = FmOff
    /\ ix = [pc |-> "ready", calls |-> 0]
    /\ em = EmOff
    /\ UsersOff

IndexAdd(id, document, metadata, env) ==
    /\ ix.pc # "off"
    /\ ix.calls < MaxCalls
    /\ LET a == add_jd_to_chroma(collection, id, BE, Acme, document,
                                 mock_embed_query(document, EmbeddingDim), metadata, env)
       IN /\ collection' = a.coll
          /\ ix' = [pc |-> "add", calls |-> ix.calls + 1, id |-> id,
                    existed |-> id \in DOMAIN collection, before |-> collection,
                    result |-> a.success]
    /\ UNCHANGED <<issued, req, started, running, embeddings_model, hashseed, linesep, ct, fm, em, usvc>>

IndexGet(id) ==
    /\ ix.pc # "off"
    /\ ix.calls < MaxCalls
    /\ ix' = [pc |-> "get", calls |-> ix.calls + 1, id |-> id,
              existed |-> id \in DOMAIN collection, before |-> collection,
              result |-> get_jd_from_chroma(collection, id)]
    /\ UNCHANGED <<svc, linesep, ct, fm, em, usvc>>

(***************************************************************************)
(* query_jds_by_skills (jd_processing.py 159-178).  collection.query is    *)
(* the library's.  It answers one list per query embedding, so with the    *)
(* single embedding passed here results['ids'] is a list holding one list  *)
(* of ids, and likewise for documents and metadatas.  "$contains" is an    *)
(* operator of where_document filters; whether a metadata where filter     *)
(* accepts it depends on the library version (env.where_contains): the     *)
(* call raises ValueError, or filters on the substring.  The nearest-first *)
(* order is not modelled: the matching ids come in a fixed order.          *)
(***************************************************************************)
RECURSIVE Contains(_, _)
Contains(hay, needle) ==
    IF Len(needle) > Len(hay) THEN FALSE
    ELSE IF SubSeq(hay, 1, Len(needle)) = needle THEN TRUE
    ELSE Contains(Tail(hay), needle)

Matches(coll, field, needle) ==
    {id \in DOMAIN coll :
        /\ field \in DOMAIN coll[id].metadata
        /\ coll[id].metadata[field].type = "str"
        /\ Contains(coll[id].metadata[field].val, needle)}

RECURSIVE Ranked(_)
Ranked(ids) ==
    IF ids = {} THEN <<>>
    ELSE LET first == CHOOSE id \in ids : TRUE
         IN <<first>> \o Ranked(ids \ {first})

NResults == 10

CollectionQuery(coll, query_embedding, n_results, field, needle, env) ==
    IF ~env.where_contains THEN [raised |-> TRUE]
    ELSE LET all == Ranked(Matches(coll, field, needle))
             ids == SubSeq(all, 1, IF Len(all) < n_results THEN Len(all) ELSE n_results)
         IN [raised |-> FALSE,
             ids |-> <<List(ids)>>,
             documents |-> <<List([i \in 1..Len(ids) |-> coll[ids[i]].document])>>,
             metadatas |-> <<List([i \in 1..Len(ids) |-> coll[ids[i]].metadata])>>]

QueryEnvs == [where_contains : BOOLEAN]

\* 159-178: one element per item of results['ids'].  No try/except: an
\* exception of collection.query propagates to the caller.
query_jds_by_skills(coll, query_embedding, required_skill, env) ==
    LET results == CollectionQuery(coll, query_embedding, NResults,
                                   "required_skills", required_skill, env)
    IN IF results.raised THEN [raised |-> TRUE, value |-> <<>>]
       ELSE [raised |-> FALSE,
             value |-> IF results.ids # <<>>
                       THEN [i \in 1..Len(results.ids) |->
                               [id |-> results.ids[i],
                                document |-> results.documents[i],
                                metadata |-> results.metadatas[i]]]
                       ELSE <<>>]

IndexSkills == {K8s, Go}

IndexQuery(skill, env) ==
    /\ ix.pc # "off"
    /\ ix.calls < MaxCalls
    /\ LET q == query_jds_by_skills(collection, mock_embed_query(skill, EmbeddingDim),
                                    skill, env)
       IN ix' = [pc |-> "query", calls |-> ix.calls + 1, skill |-> skill,
                 raised |-> q.raised, result |-> q.value]
    /\ UNCHANGED <<svc, linesep, ct, fm, em, usvc>>

NextIndex ==
    \/ \E id \in IndexIds, d \in IndexDocuments, m \in IndexMetadatas, env \in AddEnvs :
          IndexAdd(id, d, m, env)
    \/ \E id \in IndexIds : IndexGet(id)
    \/ \E skill \in IndexSkills, env \in QueryEnvs : IndexQuery(skill, env)

SpecIndex == InitIndex /\ [][NextIndex]_vars

(***************************************************************************)
(* C8  Duplicate id rejection: add_jd_to_chroma called with an id that is  *)
(* already in the index returns False and leaves the stored entry          *)
(* unchanged; it never overwrites and never reports success.               *)
(***************************************************************************)
C8_DuplicateIdRejected ==
    (ix.pc = "add" /\ ix.existed) =>
        /\ ix.result = FALSE
        /\ collection = ix.before

(***************************************************************************)
(* C9  Idempotent normalization: for every text t, including texts with    *)
(* blank lines, tabs, mixed newline conventions and leading or trailing    *)
(* whitespace, clean_text(clean_text(t)) = clean_text(t).                  *)
(***************************************************************************)
C9_CleanIdempotent == ct.pc = "twice" => ct.twice = ct.once

\* A text with a tab, a CR LF boundary and trailing whitespace was cleaned
\* twice, and cleaning changed it.
C9_Witness ==
    /\ ct.pc = "twice"
    /\ ct.text = <<TAB, "a", CR, LF, SP>>
    /\ ct.once = <<"a">>
    /\ ct.twice = <<"a">>

(***************************************************************************)
(* C10  Flattening result: to_flat_metadata returns a mapping whose keys   *)
(* are exactly the record's field names (also for an empty list or a None  *)
(* field); each list field maps to the str made of its items in order with *)
(* one newline between consecutive items (the empty list to the empty      *)
(* str); each other field maps to its unchanged value.                     *)
(***************************************************************************)
\* Where item i of xs starts in the joined text (0-based offset).
RECURSIVE OffsetOf(_, _)
OffsetOf(xs, i) == IF i = 1 THEN 0 ELSE OffsetOf(xs, i - 1) + Len(xs[i - 1]) + 1

IsNewlineJoin(s, xs) ==
    /\ Len(s) = IF xs = <<>> THEN 0 ELSE OffsetOf(xs, Len(xs)) + Len(xs[Len(xs)])
    /\ \A i \in 1..Len(xs) :
          /\ SubSeq(s, OffsetOf(xs, i) + 1, OffsetOf(xs, i) + Len(xs[i])) = xs[i]
          /\ i < Len(xs) => s[OffsetOf(xs, i) + Len(xs[i]) + 1] = LF

C10_FlattenResult ==
    fm.pc = "out" =>
        /\ DOMAIN fm.out = FieldNames
        /\ \A k \in FieldNames :
              IF fm.jd[k].type = "list"
              THEN /\ fm.out[k].type = "str"
                   /\ IsNewlineJoin(fm.out[k].val, fm.jd[k].val)
              ELSE fm.out[k] = fm.jd[k]

\* A record with an empty list, a two-item list and a None field was flattened.
C10_Witness ==
    /\ fm.pc = "out"
    /\ fm.jd["benefits"] = List(<<>>)
    /\ fm.out["benefits"] = Str(<<>>)
    /\ fm.jd["required_skills"] = List(<<Go, K8s>>)
    /\ fm.out["required_skills"] = Str(<<"g", "o", LF, "k">>)
    /\ fm.jd["location"] = NoneV
    /\ fm.out["location"] = NoneV

(***************************************************************************)
(* SpecEmbed: generate_embedding called directly, at most MaxCalls times,  *)
(* in a process that may be restarted between calls.  A restart runs the   *)
(* module initialisation again (jd_processing.py 13-34): the embeddings    *)
(* client is constructed or not, and the interpreter draws a new string    *)
(* hash randomisation unless PYTHONHASHSEED pins it.                       *)
(***************************************************************************)
HashSeeds == {0, 1}
EmbedTexts == {<<>>, <<SP, LF>>, <<"a">>, <<"a", SP>>}

\* The backend calls generate_embedding(text) makes (93-111): none when a
\* guard returns early, otherwise get_embedding in mock mode, which calls
\* mock_embed_query; embeddings_model.embed_query is never reached.
EmbeddingCalls(text) ==
    IF ~embeddings_model THEN <<>>
    ELSE IF strip(text) = <<>> THEN <<>>
    ELSE <<"get_embedding", "mock_embed_query">>

InitEmbed ==
    /\ ServiceIdle
    /\ linesep = <<LF>>
    /\ ct = CtOff
    /\ fm = FmOff
    /\ ix = IxOff
    /\ em = [pc |-> "ready", log |-> <<>>]
    /\ UsersOff

EmbedText(text) ==
    /\ em.pc # "off"
    /\ Len(em.log) < MaxCalls
    /\ em' = [pc |-> "called",
              log |-> Append(em.log, [text |-> text, model |-> embeddings_model,
                                      calls |-> EmbeddingCalls(text),
                                      value |-> generate_embedding(text)])]
    /\ UNCHANGED <<svc, linesep, ct, fm, ix, usvc>>

Restart ==
    /\ em.pc # "off"
    /\ \E m \in BOOLEAN, h \in HashSeeds :
          /\ <<m, h>> # <<embeddings_model, hashseed>>
          /\ embeddings_model' = m
          /\ hashseed' = h
    /\ UNCHANGED <<collection, issued, req, started, running, linesep, ct, fm, ix, em, usvc>>

NextEmbed ==
    \/ \E t \in EmbedTexts : EmbedText(t)
    \/ Restart

SpecEmbed == InitEmbed /\ [][NextEmbed]_vars

(***************************************************************************)
(* C11  Embedding of empty text: generate_embedding called with empty or   *)
(* whitespace-only text returns None and invokes no embedding backend,     *)
(* neither the live client nor the mock.                                   *)
(***************************************************************************)
C11_EmptyTextNoBackend ==
    \A i \in 1..Len(em.log) :
        strip(em.log[i].text) = <<>> =>
            /\ em.log[i].value = NoneV
            /\ em.log[i].calls = <<>>

\* With the embeddings client initialised, a whitespace-only text was
\* embedded (the guard at line 100 decided), and so was a text with content,
\* for which the mock backend was called.
C11_Witness ==
    /\ em.pc = "called"
    /\ \E i, j \in 1..Len(em.log) :
          /\ em.log[i].model /\ em.log[i].text = <<SP, LF>>
          /\ em.log[i].value = NoneV
          /\ em.log[j].model /\ em.log[j].text = <<"a">>
          /\ em.log[j].calls # <<>> /\ em.log[j].value # NoneV

(***************************************************************************)
(* C12  Deterministic embedding mode: the mock seed depends on the text's  *)
(* content only, so any two calls of generate_embedding with the same text *)
(* that return a vector return the same vector.                            *)
(***************************************************************************)
C12_SameTextSameVector ==
    \A i, j \in 1..Len(em.log) :
        (/\ em.log[i].text = em.log[j].text
         /\ em.log[i].value # NoneV
         /\ em.log[j].value # NoneV)
        => em.log[i].value = em.log[j].value


(***************************************************************************)
(* C13  Filtered query: query_jds_by_skills(embedding, skill) returns only *)
(* entries whose flattened required_skills contains skill; with two        *)
(* entries in the index of which exactly one has a required skill          *)
(* containing the queried one, the query returns that entry and no other.  *)
(***************************************************************************)
ReturnedIds ==
    UNION {{e.id.val[n] : n \in 1..Len(e.id.val)} :
              e \in {ix.result[i] : i \in 1..Len(ix.result)}}

C13_OneOfTwo ==
    /\ Cardinality(DOMAIN collection) = 2
    /\ Cardinality(Matches(collection, "required_skills", ix.skill)) = 1

C13_FilteredQuery ==
    ix.pc = "query" =>
        /\ ~ix.raised => ReturnedIds \subseteq Matches(collection, "required_skills", ix.skill)
        /\ C13_OneOfTwo =>
              /\ ~ix.raised
              /\ ReturnedIds = Matches(collection, "required_skills", ix.skill)

(***************************************************************************)
(* C19  Query result shape: query_jds_by_skills returns one element per    *)
(* matching entry, at most 10, each carrying the id, document and metadata *)
(* of that one entry; with m <= 10 matching entries the result has length  *)
(* m.                                                                      *)
(***************************************************************************)
C19_OneElementPerMatch ==
    (ix.pc = "query" /\ ~ix.raised) =>
        LET m == Cardinality(Matches(collection, "required_skills", ix.skill))
        IN /\ Len(ix.result) <= NResults
           /\ m <= NResults => Len(ix.result) = m
           /\ \A i \in 1..Len(ix.result) :
                 /\ ix.result[i].id.type = "str"
                 /\ ix.result[i].id.val \in DOMAIN collection
                 /\ ix.result[i].document = Str(collection[ix.result[i].id.val].document)
                 /\ ix.result[i].metadata = collection[ix.result[i].id.val].metadata


(***************************************************************************)
(* C14  Structured failures: a failing ingestion reports the stage that    *)
(* failed (input, extract, normalize, structure, embed or store) next to   *)
(* its reason, so two failures that arise in different stages never carry  *)
(* the same stage indication.  An HTTPException carries a status code and  *)
(* a detail text (the reason); the status code is what indicates the stage.*)
(***************************************************************************)
FailingStage(p) ==
    LET t == req[p].trace
    IN IF t = <<>> THEN "input"
       ELSE CASE t[Len(t)] \in {"extract_text_from_file", "fitz.open", "docx.Document"}
                     -> "extract"
              [] t[Len(t)] = "clean_text" -> "normalize"
              [] t[Len(t)] = "chat.completions.create" -> "structure"
              [] t[Len(t)] = "generate_embedding" -> "embed"
              [] t[Len(t)] = "add_jd_to_chroma" -> "store"
              [] OTHER -> "none"

C14_StageIdentified ==
    \A p, q \in Procs :
        (/\ req[p].pc = "failed" /\ req[q].pc = "failed"
         /\ FailingStage(p) # FailingStage(q))
        => req[p].resp.status_code # req[q].resp.status_code

(***************************************************************************)
(* C15  Bounded retry: a structured-extraction call that fails with a      *)
(* service error or a schema-validation error is attempted again with the  *)
(* same input; the ingestion is reported as failed at that stage only      *)
(* after more than one attempt.                                            *)
(***************************************************************************)
LLMAttempts(p) == Cardinality(CallsOf(p, "chat.completions.create"))

C15_RetriedBeforeTerminal ==
    \A p \in Procs :
        (FailedWith(p, HTTP_500_INTERNAL_SERVER_ERROR, MsgSchema)
            \/ FailedWith(p, HTTP_500_INTERNAL_SERVER_ERROR, MsgLLM))
        => LLMAttempts(p) > 1

(***************************************************************************)
(* C17  Step order.  As claimed: the stages of one ingestion run in the    *)
(* order validation, extraction (documents only), normalization, job_id    *)
(* generation, structured extraction, embedding generation, metadata       *)
(* flattening, index add, and metadata flattening is never invoked before  *)
(* embedding generation has succeeded.                                     *)
(***************************************************************************)
IsPrefix(s, t) == Len(s) <= Len(t) /\ SubSeq(t, 1, Len(s)) = s

ExtractionSteps(r) ==
    IF Truthy(r.file)
    THEN <<"file.read", "extract_text_from_file">>
            \o extract_text_from_file(r.file.bytes, r.file.content_type).calls
    ELSE <<>>

C17_ClaimedOrder(r) ==
    ExtractionSteps(r) \o <<"clean_text", "uuid4", "chat.completions.create",
                            "generate_embedding", "to_flat_metadata", "add_jd_to_chroma">>

C17_FlattenAfterEmbedding ==
    \A p \in Procs :
        Arrived(p) =>
            /\ IsPrefix(req[p].trace, C17_ClaimedOrder(req[p]))
            /\ HasCalled(p, "to_flat_metadata") => Truthy(req[p].jd_embedding)

(***************************************************************************)
(* C17 as amended: the stages run in the order validation, extraction      *)
(* (documents only), normalization, job_id generation, structured          *)
(* extraction, metadata flattening, embedding generation, index add; a     *)
(* stage is invoked only with the product of the stage before it, and a    *)
(* failed ingestion invokes nothing after the stage that failed.           *)
(***************************************************************************)
C17_CodeOrder(r) ==
    ExtractionSteps(r) \o <<"clean_text", "uuid4", "chat.completions.create",
                            "to_flat_metadata", "generate_embedding", "add_jd_to_chroma">>

C17_ProductsPresent(p) ==
    /\ HasCalled(p, "clean_text") => Truthy(req[p].extracted_text)
    /\ HasCalled(p, "uuid4") => Truthy(Str(req[p].cleaned_jd_text))
    /\ HasCalled(p, "chat.completions.create") => req[p].job_id # NoneV
    /\ HasCalled(p, "to_flat_metadata") => req[p].parsed_jd_data # NoneV
    /\ HasCalled(p, "generate_embedding") => req[p].jd_metadata # NoneV
    /\ HasCalled(p, "add_jd_to_chroma") => Truthy(req[p].jd_embedding)

C17_StepOrder ==
    /\ [](\A p \in Procs :
            Arrived(p) =>
                /\ IsPrefix(req[p].trace, C17_CodeOrder(req[p]))
                /\ C17_ProductsPresent(p))
    /\ [][\A p \in Procs : req[p].pc = "failed" => req'[p] = req[p]]_vars

\* One request ran every stage on a document and succeeded; the other
\* flattened the metadata and then failed at the embedding or at the add.
C17_Witness ==
    \E p, q \in Procs :
        /\ Succeeded(p) /\ Truthy(req[p].file)
        /\ req[p].trace = C17_CodeOrder(req[p])
        /\ req[q].pc = "failed"
        /\ HasCalled(q, "to_flat_metadata")
        /\ FailingStage(q) \in {"embed", "store"}

(***************************************************************************)
(* C18  Empty content after successful extraction: when a document of a    *)
(* supported type is parsed without error but its text is empty or         *)
(* whitespace-only, or the raw text is whitespace-only, the ingestion      *)
(* fails at the normalize stage with the empty-content reason, not at the  *)
(* extract stage; no identifier is generated, no model or embedding call   *)
(* is made and no index entry is written.                                  *)
(***************************************************************************)
C18_BlankContent(r) ==
    \/ /\ Truthy(r.file)
       /\ r.file.content_type \in {PDF, DOCX}
       /\ ~r.file.bytes.corrupt
       /\ strip(extract_text_from_file(r.file.bytes, r.file.content_type).text.val) = <<>>
    \/ /\ ~Truthy(r.file)
       /\ Truthy(r.raw_text)
       /\ strip(r.raw_text.val) = <<>>

C18_EmptyContentAtNormalize ==
    \A p \in Procs :
        (Finished(p) /\ C18_BlankContent(req[p])) =>
            /\ FailedWith(p, HTTP_422_UNPROCESSABLE_ENTITY, MsgEmpty)
            /\ FailingStage(p) = "normalize"
            /\ req[p].job_id = NoneV
            /\ ~HasCalled(p, "uuid4")
            /\ ~HasCalled(p, "chat.completions.create")
            /\ ~HasCalled(p, "generate_embedding")
            /\ ~HasCalled(p, "add_jd_to_chroma")


(***************************************************************************)
(* C16  Concurrent ingestions: under every interleaving of the requests,   *)
(* the index holds exactly one entry per ingestion that succeeded, under   *)
(* pairwise distinct ids (no lost update), and no state of the index, which*)
(* is what a concurrent get or query reads, holds an entry with an id but  *)
(* without its document, embedding or metadata.                            *)
(***************************************************************************)
C16_NoLostUpdate ==
    /\ Cardinality(DOMAIN collection) = Cardinality({p \in Procs : Succeeded(p)})
    /\ \A p \in Procs : Succeeded(p) => req[p].job_id \in DOMAIN collection
    /\ \A p, q \in Procs :
          (Succeeded(p) /\ Succeeded(q) /\ p # q) => req[p].job_id # req[q].job_id
    /\ \A id \in DOMAIN collection :
          LET e == get_jd_from_chroma(collection, id)
          IN /\ e # NoneV
             /\ e.id = id
             /\ e.document # <<>>
             /\ Truthy(e.embedding)
             /\ DOMAIN e.metadata = FieldNames

\* Two ingestions overlapped and both succeeded: the first was suspended in
\* "await file.read()" while the second, which arrived later, drew the first
\* identifier; both entries are in the index.
C16_Witness ==
    /\ Succeeded(1) /\ Succeeded(2)
    /\ Truthy(req[1].file)
    /\ req[2].job_id = UuidText(1)
    /\ req[1].job_id = UuidText(2)
    /\ DOMAIN collection = {UuidText(1), UuidText(2)}

C21_AnswerWithoutJobIdAccepted ==
    \A p \in Procs :
        ~(/\ FailedWith(p, HTTP_500_INTERNAL_SERVER_ERROR, MsgSchema)
          /\ Tail(req[p].resp.detail) = <<"job_id">>)


(***************************************************************************)
(* user_services: the users and jobs tables (models.py) and the handlers   *)
(* of routes/users.py and routes/jobs.py.  Every handler is a coroutine    *)
(* with its own database session; each "await db.execute" and "await       *)
(* db.commit" is a suspension point, so the handlers of different requests *)
(* interleave between their queries and their commit.  A row keeps the     *)
(* columns the handlers decide on: a user's email and role, a job's        *)
(* owner_id.                                                               *)
(*                                                                         *)
(* The database enforces users.email UNIQUE (models.py 15) and, where      *)
(* foreign keys are enforced, jobs.owner_id REFERENCES users.id (32).  A   *)
(* violated constraint makes the commit raise IntegrityError; a row that   *)
(* is gone when the session writes it makes it raise StaleDataError.  No   *)
(* handler catches either: the request ends in an unhandled fault and its  *)
(* transaction is rolled back.                                             *)
(***************************************************************************)
recruiter == "recruiter"
candidate == "candidate"
RoleEnum == {recruiter, candidate}

UserEmails == {"a@x", "b@x"}
UserIdsAsked == 1..2
JobIdsAsked == 1..1
UserSlots == 1..MaxUserRequests

HTTP_200_OK == 200
HTTP_201_CREATED == 201
HTTP_204_NO_CONTENT == 204
HTTP_403_FORBIDDEN == 403
HTTP_404_NOT_FOUND == 404

UserRow(email, role) == [email |-> email, role |-> role]
JobRow(owner_id) == [owner_id |-> owner_id]

Put(table, id, row) == [k \in DOMAIN table \cup {id} |-> IF k = id THEN row ELSE table[k]]
Drop(table, id) == [k \in DOMAIN table \ {id} |-> table[k]]

\* select(models.User).filter(models.User.email == email)
UsersByEmail(email) == {u \in DOMAIN users : users[u].email = email}

Answer(status_code, detail) == [status_code |-> status_code, detail |-> detail]
Fault(exception) == [status_code |-> HTTP_500_INTERNAL_SERVER_ERROR, detail |-> exception]

UIdle == [pc |-> "idle"]

\* The request in slot r arrives: only the next free slot takes a request.
UArrives(r) ==
    /\ ureq[r].pc = "idle"
    /\ \A q \in UserSlots : q < r => ureq[q].pc # "idle"

UEnd(r, resp) == ureq' = [ureq EXCEPT ![r] = [@ EXCEPT !.pc = "done", !.resp = resp]]
UGoto(r, frame) == ureq' = [ureq EXCEPT ![r] = frame]

UKeepTables == UNCHANGED <<users, jobs, user_seq, job_seq>>
UKeepRest == UNCHANGED <<svc, linesep, ct, fm, ix, em, fk_enforced>>

InitUsers ==
    /\ ServiceIdle
    /\ linesep = <<LF>>
    /\ ct = CtOff
    /\ fm = FmOff
    /\ ix = IxOff
    /\ em = EmOff
    /\ users = <<>>
    /\ jobs = <<>>
    /\ user_seq = 0
    /\ job_seq = 0
    /\ fk_enforced \in BOOLEAN
    /\ ureq = [r \in UserSlots |-> UIdle]


UFrame(op, pc, args, seen) == [pc |-> pc, op |-> op, args |-> args, seen |-> seen, resp |-> NoneV]
UFinal(op, args, resp) == [pc |-> "done", op |-> op, args |-> args, seen |-> NoneV, resp |-> resp]

(***************************************************************************)
(* routes/users.py                                                         *)
(***************************************************************************)
\* create_user 28-34: the email is looked up; a hit is answered with 400.
CreateUserCheck(r, email, role) ==
    /\ UArrives(r)
    /\ LET args == [email |-> email, role |-> role]
       IN IF UsersByEmail(email) # {}
          THEN UGoto(r, UFinal("create_user", args,
                               Answer(HTTP_400_BAD_REQUEST, "Email already registered")))
          ELSE UGoto(r, UFrame("create_user", "commit", args, NoneV))
    /\ UKeepTables /\ UKeepRest

\* create_user 35-48: the INSERT and its commit.
CreateUserCommit(r) ==
    /\ ureq[r].pc = "commit" /\ ureq[r].op = "create_user"
    /\ LET a == ureq[r].args
       IN IF UsersByEmail(a.email) # {}
          THEN /\ UEnd(r, Fault("IntegrityError"))
               /\ UNCHANGED <<users, user_seq>>
          ELSE /\ users' = Put(users, user_seq + 1, UserRow(a.email, a.role))
               /\ user_seq' = user_seq + 1
               /\ UEnd(r, Answer(HTTP_201_CREATED, "user"))
    /\ UNCHANGED <<jobs, job_seq>> /\ UKeepRest

\* update_user 75-83: the row is loaded; 404 when there is none.
UpdateUserFind(r, user_id, email, role) ==
    /\ UArrives(r)
    /\ LET args == [user_id |-> user_id, email |-> email, role |-> role]
       IN IF user_id \notin DOMAIN users
          THEN UGoto(r, UFinal("update_user", args,
                               Answer(HTTP_404_NOT_FOUND, "User not found")))
          ELSE IF email # users[user_id].email
          THEN UGoto(r, UFrame("update_user", "check", args, users[user_id]))
          ELSE UGoto(r, UFrame("update_user", "commit", args, users[user_id]))
    /\ UKeepTables /\ UKeepRest

\* update_user 84-90: the new email is looked up; a hit is answered with 400.
UpdateUserCheck(r) ==
    /\ ureq[r].pc = "check" /\ ureq[r].op = "update_user"
    /\ IF UsersByEmail(ureq[r].args.email) # {}
       THEN UEnd(r, Answer(HTTP_400_BAD_REQUEST, "Email already registered by another user"))
       ELSE UGoto(r, [ureq[r] EXCEPT !.pc = "commit"])
    /\ UKeepTables /\ UKeepRest

\* update_user 92-104: the session writes the columns whose value differs
\* from the loaded one, for the row with the loaded id.
UpdateUserCommit(r) ==
    /\ ureq[r].pc = "commit" /\ ureq[r].op = "update_user"
    /\ LET a == ureq[r].args
           seen == ureq[r].seen
       IN IF a.user_id \notin DOMAIN users
          THEN /\ UEnd(r, Fault("StaleDataError"))
               /\ UNCHANGED users
          ELSE LET row == UserRow(IF a.email # seen.email THEN a.email
                                                        ELSE users[a.user_id].email,
                                  IF a.role # seen.role THEN a.role
                                                      ELSE users[a.user_id].role)
               IN IF UsersByEmail(row.email) \ {a.user_id} # {}
                  THEN /\ UEnd(r, Fault("IntegrityError"))
                       /\ UNCHANGED users
                  ELSE /\ users' = Put(users, a.user_id, row)
                       /\ UEnd(r, Answer(HTTP_200_OK, "user"))
    /\ UNCHANGED <<jobs, user_seq, job_seq>> /\ UKeepRest

\* delete_user 109-115
DeleteUserFind(r, user_id) ==
    /\ UArrives(r)
    /\ LET args == [user_id |-> user_id]
       IN IF user_id \notin DOMAIN users
          THEN UGoto(r, UFinal("delete_user", args,
                               Answer(HTTP_404_NOT_FOUND, "User not found")))
          ELSE UGoto(r, UFrame("delete_user", "commit", args, users[user_id]))
    /\ UKeepTables /\ UKeepRest

\* delete_user 116-118.  The jobs relationship (models.py 24) has no delete
\* cascade: the session detaches the user's jobs by setting their owner_id
\* to NULL, which the NOT NULL column (32) rejects.
DeleteUserCommit(r) ==
    /\ ureq[r].pc = "commit" /\ ureq[r].op = "delete_user"
    /\ LET a == ureq[r].args
       IN IF a.user_id \notin DOMAIN users
          THEN /\ UEnd(r, Fault("StaleDataError"))
               /\ UNCHANGED users
          ELSE IF \E j \in DOMAIN jobs : jobs[j].owner_id = a.user_id
          THEN /\ UEnd(r, Fault("IntegrityError"))
               /\ UNCHANGED users
          ELSE /\ users' = Drop(users, a.user_id)
               /\ UEnd(r, Answer(HTTP_204_NO_CONTENT, "User deleted successfully"))
    /\ UNCHANGED <<jobs, user_seq, job_seq>> /\ UKeepRest

(***************************************************************************)
(* routes/jobs.py                                                          *)
(***************************************************************************)
\* create_job 17-29: the owner must exist and be a recruiter.
CreateJobFind(r, owner_id) ==
    /\ UArrives(r)
    /\ LET args == [owner_id |-> owner_id]
       IN IF owner_id \notin DOMAIN users
          THEN UGoto(r, UFinal("create_job", args,
                               Answer(HTTP_404_NOT_FOUND, "Owner (User) not found")))
          ELSE IF users[owner_id].role # recruiter
          THEN UGoto(r, UFinal("create_job", args,
                               Answer(HTTP_403_FORBIDDEN, "Only recruiters can create jobs")))
          ELSE UGoto(r, UFrame("create_job", "commit", args, users[owner_id]))
    /\ UKeepTables /\ UKeepRest

\* create_job 31-48: the INSERT and its commit; the response needs the owner.
CreateJobCommit(r) ==
    /\ ureq[r].pc = "commit" /\ ureq[r].op = "create_job"
    /\ LET a == ureq[r].args
       IN IF fk_enforced /\ a.owner_id \notin DOMAIN users
          THEN /\ UEnd(r, Fault("IntegrityError"))
               /\ UNCHANGED <<jobs, job_seq>>
          ELSE /\ jobs' = Put(jobs, job_seq + 1, JobRow(a.owner_id))
               /\ job_seq' = job_seq + 1
               /\ IF a.owner_id \in DOMAIN users
                  THEN UEnd(r, Answer(HTTP_201_CREATED, "job"))
                  ELSE UEnd(r, Fault("ResponseValidationError"))
    /\ UNCHANGED <<users, user_seq>> /\ UKeepRest

\* update_job 87-95
UpdateJobFind(r, job_id, owner_id) ==
    /\ UArrives(r)
    /\ LET args == [job_id |-> job_id, owner_id |-> owner_id]
       IN IF job_id \notin DOMAIN jobs
          THEN UGoto(r, UFinal("update_job", args,
                               Answer(HTTP_404_NOT_FOUND, "Job not found")))
          ELSE IF owner_id # jobs[job_id].owner_id
          THEN UGoto(r, UFrame("update_job", "check", args, jobs[job_id]))
          ELSE UGoto(r, UFrame("update_job", "commit", args, jobs[job_id]))
    /\ UKeepTables /\ UKeepRest

\* update_job 96-102: the new owner must exist; its role is not looked at.
UpdateJobCheck(r) ==
    /\ ureq[r].pc = "check" /\ ureq[r].op = "update_job"
    /\ IF ureq[r].args.owner_id \notin DOMAIN users
       THEN UEnd(r, Answer(HTTP_404_NOT_FOUND, "New owner (User) not found"))
       ELSE UGoto(r, [ureq[r] EXCEPT !.pc = "commit"])
    /\ UKeepTables /\ UKeepRest

\* update_job 104-120
UpdateJobCommit(r) ==
    /\ ureq[r].pc = "commit" /\ ureq[r].op = "update_job"
    /\ LET a == ureq[r].args
           seen == ureq[r].seen
       IN IF a.job_id \notin DOMAIN jobs
          THEN /\ UEnd(r, Fault("StaleDataError"))
               /\ UNCHANGED jobs
          ELSE LET row == JobRow(IF a.owner_id # seen.owner_id THEN a.owner_id
                                                              ELSE jobs[a.job_id].owner_id)
               IN IF fk_enforced /\ a.owner_id # seen.owner_id
                                 /\ a.owner_id \notin DOMAIN users
                  THEN /\ UEnd(r, Fault("IntegrityError"))
                       /\ UNCHANGED jobs
                  ELSE /\ jobs' = Put(jobs, a.job_id, row)
                       /\ IF row.owner_id \in DOMAIN users
                          THEN UEnd(r, Answer(HTTP_200_OK, "job"))
                          ELSE UEnd(r, Fault("ResponseValidationError"))
    /\ UNCHANGED <<users, user_seq, job_seq>> /\ UKeepRest

\* delete_job 125-131
DeleteJobFind(r, job_id) ==
    /\ UArrives(r)
    /\ LET args == [job_id |-> job_id]
       IN IF job_id \notin DOMAIN jobs
          THEN UGoto(r, UFinal("delete_job", args,
                               Answer(HTTP_404_NOT_FOUND, "Job not found")))
          ELSE UGoto(r, UFrame("delete_job", "commit", args, jobs[job_id]))
    /\ UKeepTables /\ UKeepRest

\* delete_job 132-134
DeleteJobCommit(r) ==
    /\ ureq[r].pc = "commit" /\ ureq[r].op = "delete_job"
    /\ IF ureq[r].args.job_id \notin DOMAIN jobs
       THEN /\ UEnd(r, Fault("StaleDataError"))
            /\ UNCHANGED jobs
       ELSE /\ jobs' = Drop(jobs, ureq[r].args.job_id)
            /\ UEnd(r, Answer(HTTP_204_NO_CONTENT, "Job deleted successfully"))
    /\ UNCHANGED <<users, user_seq, job_seq>> /\ UKeepRest

NextUsers ==
    \/ \E r \in UserSlots, e \in UserEmails, ro \in RoleEnum : CreateUserCheck(r, e, ro)
    \/ \E r \in UserSlots : CreateUserCommit(r)
    \/ \E r \in UserSlots, u \in UserIdsAsked, e \in UserEmails, ro \in RoleEnum :
          UpdateUserFind(r, u, e, ro)
    \/ \E r \in UserSlots : UpdateUserCheck(r)
    \/ \E r \in UserSlots : UpdateUserCommit(r)
    \/ \E r \in UserSlots, u \in UserIdsAsked : DeleteUserFind(r, u)
    \/ \E r \in UserSlots : DeleteUserCommit(r)
    \/ \E r \in UserSlots, u \in UserIdsAsked : CreateJobFind(r, u)
    \/ \E r \in UserSlots : CreateJobCommit(r)
    \/ \E r \in UserSlots, j \in JobIdsAsked, u \in UserIdsAsked : UpdateJobFind(r, j, u)
    \/ \E r \in UserSlots : UpdateJobCheck(r)
    \/ \E r \in UserSlots : UpdateJobCommit(r)
    \/ \E r \in UserSlots, j \in JobIdsAsked : DeleteJobFind(r, j)
    \/ \E r \in UserSlots : DeleteJobCommit(r)

SpecUsers == InitUsers /\ [][NextUsers]_vars

(***************************************************************************)
(* C22  Recruiter ownership: in every state reachable by create_user,      *)
(* update_user, delete_user, create_job, update_job and delete_job         *)
(* requests, every stored job's owner_id refers to an existing user whose  *)
(* role is recruiter.                                                      *)
(***************************************************************************)
C22_OwnerIsRecruiter ==
    \A j \in DOMAIN jobs :
        /\ jobs[j].owner_id \in DOMAIN users
        /\ users[jobs[j].owner_id].role = recruiter

(***************************************************************************)
(* C23  Email uniqueness under concurrency: under every interleaving of    *)
(* create_user and update_user requests, no two stored users have the same *)
(* email, and a request whose email another stored user holds when it      *)
(* commits is answered with the 400 "Email already registered" error, never*)
(* with an unhandled fault.                                                *)
(***************************************************************************)
C23_UniqueEmailNoFault ==
    /\ \A u, v \in DOMAIN users : u # v => users[u].email # users[v].email
    /\ \A r \in UserSlots :
          (ureq[r].pc = "done" /\ ureq[r].op \in {"create_user", "update_user"})
          => ureq[r].resp # Fault("IntegrityError")

====
